---- MODULE Spec2Model ----
(***************************************************************************)
(* A model of logue.py, a terminal logbook: the interactive session        *)
(* (location prompt, clock-in, main loop with the entry editor and the     *)
(* catalogue), the record store (load_data / save_data), the publication   *)
(* step (git_commit_and_push) and the pure helpers the session uses.       *)
(*                                                                         *)
(* Strings are sequences of one-character strings.  The editor only ever   *)
(* inserts the codes 32..126 (logue.py:221), so a line holds no newline    *)
(* and its only whitespace character is the space.                         *)
(* A timestamp "%Y_%m_%d_%H_%M_%S" is the sequence <<day, hour>> and a day *)
(* key "%Y_%m_%d" the sequence <<day>>, so that startswith() is the prefix *)
(* test and string order is the lexicographic order of the sequences.      *)
(***************************************************************************)
EXTENDS Integers, Sequences, FiniteSets, TLC

VARIABLES
    pc,                        \* where interactive_mode is blocked
    file,                      \* the persisted store LOGFILE
    entries,                   \* data["entries"] of the process
    tasks_map,                 \* data["tasks"] of the process
    load_error,                \* whether the last load_data printed its [ERROR] line
    days_list,                 \* the grouped days of the last loop iteration
    location,
    location_tags,
    today,                     \* today_date, read once at session start
    clock,                     \* the last wall-clock time the process has read
    catalogue_focus,
    selected_catalogue_index,
    viewed_day_index,
    height,                    \* terminal height of the last loop iteration
    top_idx,                   \* first day row render_catalogue has drawn
    commits,                   \* number of non-empty lines committed so far
    last,                      \* what the last handler did (observation only)
    ch,                        \* the last key getch() returned
    buffer,                    \* get_singleline_input: the characters typed
    cursor_pos,                \* get_singleline_input: the cursor index
    scroll,                    \* get_singleline_input: the first column shown
    visible,                   \* get_singleline_input: the width of the window
    other_writes,              \* the entries another process has written to LOGFILE
    call_arg,                  \* the argument of a helper called on its own
    result                     \* what the helper returned, call after call

\* the locals of the running call of get_singleline_input
editor == <<buffer, cursor_pos, scroll, visible>>

\* a helper function called outside a session
helper == <<call_arg, result>>

\* the state of interactive_mode apart from the key it has just read
session == <<pc, file, entries, tasks_map, load_error, days_list, location, location_tags,
             today, clock, catalogue_focus, selected_catalogue_index,
             viewed_day_index, height, top_idx, commits, last>>

\* the same, apart from the persisted store
session_but_file == <<pc, entries, tasks_map, load_error, days_list, location,
                      location_tags, today, clock, catalogue_focus,
                      selected_catalogue_index, viewed_day_index, height,
                      top_idx, commits, last>>

vars == <<pc, file, entries, tasks_map, load_error, days_list, location, location_tags,
          today, clock, catalogue_focus, selected_catalogue_index,
          viewed_day_index, height, top_idx, commits, last, ch,
          buffer, cursor_pos, scroll, visible, other_writes, call_arg, result>>

----------------------------------------------------------------------------
(* Bounds of the model *)

\* the last calendar day the wall clock reaches (the session starts on day 0)
MaxDay == 1
\* the number of non-empty lines a session commits
MaxCommits == 1
\* the longest line typed key by key
MaxTyped == 2
\* the longest line handed to a helper called on its own
MaxLen == 3
\* the longest list of entries handed to group_entries_by_day on its own
MaxEntries == 3
\* the number of writes another process makes to the store during a session
MaxWrites == 1

----------------------------------------------------------------------------
(* Characters and strings *)

Max(a, b) == IF a >= b THEN a ELSE b
Min(a, b) == IF a <= b THEN a ELSE b

LowerOf ==
    [c \in {"A","B","C","D","E","F","G","H","I","J","K","L","M",
            "N","O","P","Q","R","S","T","U","V","W","X","Y","Z"} |->
       CASE c = "A" -> "a" [] c = "B" -> "b" [] c = "C" -> "c" [] c = "D" -> "d"
         [] c = "E" -> "e" [] c = "F" -> "f" [] c = "G" -> "g" [] c = "H" -> "h"
         [] c = "I" -> "i" [] c = "J" -> "j" [] c = "K" -> "k" [] c = "L" -> "l"
         [] c = "M" -> "m" [] c = "N" -> "n" [] c = "O" -> "o" [] c = "P" -> "p"
         [] c = "Q" -> "q" [] c = "R" -> "r" [] c = "S" -> "s" [] c = "T" -> "t"
         [] c = "U" -> "u" [] c = "V" -> "v" [] c = "W" -> "w" [] c = "X" -> "x"
         [] c = "Y" -> "y" [] c = "Z" -> "z"]

LowerChar(c) == IF c \in DOMAIN LowerOf THEN LowerOf[c] ELSE c

\* str.lower()
Lower(s) == [i \in 1..Len(s) |-> LowerChar(s[i])]

\* the characters the regular expression class \w accepts
IsWord(c) ==
    \/ c \in DOMAIN LowerOf
    \/ c \in {LowerOf[u] : u \in DOMAIN LowerOf}
    \/ c \in {"0","1","2","3","4","5","6","7","8","9","_"}

IsSpace(c) == c = " "

RECURSIVE LStrip(_)
LStrip(s) ==
    IF s # <<>> /\ IsSpace(Head(s)) THEN LStrip(Tail(s)) ELSE s

RECURSIVE RStrip(_)
RStrip(s) ==
    IF s # <<>> /\ IsSpace(s[Len(s)]) THEN RStrip(SubSeq(s, 1, Len(s) - 1)) ELSE s

\* str.strip()
Strip(s) == LStrip(RStrip(s))

\* str.replace(" ", "_")
ReplaceSpaces(s) == [i \in 1..Len(s) |-> IF s[i] = " " THEN "_" ELSE s[i]]

\* str.startswith(prefix)
StartsWith(s, p) == Len(p) <= Len(s) /\ SubSeq(s, 1, Len(p)) = p

\* x in list
Contains(seq, x) == \E i \in 1..Len(seq) : seq[i] = x

SWITCH_FOCUS_TOKEN ==
    <<"_","_","S","W","I","T","C","H","_","F","O","C","U","S","_","_">>

----------------------------------------------------------------------------
(* Helpers: extract_tags, extract_tasks_and_clean_text *)

\* the end of the longest run of \w characters that starts at position i
RECURSIVE WordEnd(_, _)
WordEnd(s, i) ==
    IF i <= Len(s) /\ IsWord(s[i]) THEN WordEnd(s, i + 1) ELSE i - 1

\* re.findall(r"#(\w+)", text) scanning from position i
RECURSIVE FindTags(_, _)
FindTags(s, i) ==
    IF i > Len(s) THEN <<>>
    ELSE IF s[i] = "#" /\ WordEnd(s, i + 1) > i
         THEN <<SubSeq(s, i + 1, WordEnd(s, i + 1))>> \o FindTags(s, WordEnd(s, i + 1) + 1)
         ELSE FindTags(s, i + 1)

extract_tags(text) ==
    LET found == FindTags(text, 1)
    IN  [k \in 1..Len(found) |-> Lower(found[k])]

\* position of the first "*" of s at or after i, 0 when there is none
RECURSIVE FirstStar(_, _)
FirstStar(s, i) ==
    IF i > Len(s) THEN 0
    ELSE IF s[i] = "*" THEN i ELSE FirstStar(s, i + 1)

\* Where r"\*\s*([^\n\r]+)" matches in a line without newlines: at the first
\* "*" that has a character after it, up to the end of the line (0: no match).
TaskMatch(s) ==
    LET i == FirstStar(s, 1)
    IN  IF i > 0 /\ i < Len(s) THEN i ELSE 0

\* The group of the match: \s* is greedy, and gives back one space when the
\* rest of the line is blank.
TaskGroup(s) ==
    LET i    == TaskMatch(s)
        rest == SubSeq(s, i + 1, Len(s))
    IN  IF LStrip(rest) # <<>> THEN LStrip(rest) ELSE <<" ">>

\* an extraction that leaves the task fragment in the cleaned text
ExtractKeepingFragment(text) ==
    LET m     == TaskMatch(text)
        found == IF m > 0 THEN <<TaskGroup(text)>> ELSE <<>>
        tasks == SelectSeq([k \in 1..Len(found) |-> Strip(found[k])],
                           LAMBDA t : t # <<>>)
    IN  <<tasks, Strip(text)>>

\* returns <<tasks, cleaned>>
extract_tasks_and_clean_text(text) ==
    LET m       == TaskMatch(text)
        found   == IF m > 0 THEN <<TaskGroup(text)>> ELSE <<>>
        removed == IF m > 0 THEN SubSeq(text, 1, m - 1) ELSE text
        cleaned == IF Strip(removed) = <<>> THEN <<>> ELSE Strip(RStrip(removed))
        tasks   == SelectSeq([k \in 1..Len(found) |-> Strip(found[k])],
                             LAMBDA t : t # <<>>)
    IN  <<tasks, cleaned>>

----------------------------------------------------------------------------
(* Wall clock, timestamps and day keys *)

\* the hours of a day at which the model reads the wall clock
Hours == {17}

Times == [day : 0..MaxDay, hour : Hours]

NotBefore(t, c) == t.day > c.day \/ (t.day = c.day /\ t.hour >= c.hour)

\* datetime.datetime.now(): the wall clock never runs backwards
Now(c) == {t \in Times : NotBefore(t, c)}

\* strftime("%Y_%m_%d_%H_%M_%S")
Timestamp(t) == <<t.day, t.hour>>

\* strftime("%Y_%m_%d")
DayKey(d) == <<d>>

today_str == DayKey(today)

\* today_date + datetime.timedelta(days=1)
tomorrow_str == DayKey(today + 1)

\* the bucket of the entries whose timestamp does not parse
UNKNOWN == <<>>

\* lexicographic order of two timestamp strings: a < b
RECURSIVE StrLess(_, _)
StrLess(a, b) ==
    IF b = <<>> THEN FALSE
    ELSE IF a = <<>> THEN TRUE
    ELSE IF Head(a) # Head(b) THEN Head(a) < Head(b)
    ELSE StrLess(Tail(a), Tail(b))

----------------------------------------------------------------------------
(* Data storage: load_data, save_data *)

EmptyMap == [k \in {} |-> <<>>]

EmptyData == [entries |-> <<>>, tasks |-> EmptyMap]

Missing == [kind |-> "missing", entries |-> <<>>, tasks |-> EmptyMap]

Malformed == [kind |-> "malformed", entries |-> <<>>, tasks |-> EmptyMap]

\* a store json.load reads as a dict with both keys
DictFile(es, ts) == [kind |-> "dict", entries |-> es, tasks |-> ts]

\* a store json.load reads as a bare list of entries
ListFile(es) == [kind |-> "list", entries |-> es, tasks |-> EmptyMap]

load_data(f) ==
    IF f.kind = "dict" THEN [entries |-> f.entries, tasks |-> f.tasks]
    ELSE EmptyData

\* a load_data that prints nothing when it fails
LoadErrorSilent(f) == FALSE

\* whether load_data printed "[ERROR] Failed to load log file"
LoadError(f) == f.kind = "malformed"

\* What the write of save_data can do: "ok"; "open_fails" raises before the
\* file is touched; "write_fails" raises after open("w") truncated it.
SaveOutcomes == {"ok", "open_fails", "write_fails"}

\* a write that keeps the entries found in the store and adds the others
WrittenMerging(f, es, ts, outcome) ==
    CASE outcome = "ok"          ->
             DictFile(load_data(f).entries
                      \o SelectSeq(es, LAMBDA e : ~Contains(load_data(f).entries, e)), ts)
      [] outcome = "open_fails"  -> f
      [] outcome = "write_fails" -> Malformed

Written(f, es, ts, outcome) ==
    CASE outcome = "ok"          -> DictFile(es, ts)
      [] outcome = "open_fails"  -> f
      [] outcome = "write_fails" -> Malformed

\* the events save_data leaves behind: the write, then git_commit_and_push
SaveOps(outcome) ==
    IF outcome = "ok" THEN <<"save", "publish">> ELSE <<"save_raised">>

\* how git_commit_and_push can end; it catches every exception
PublishOutcomes == {"pushed", "git_failed", "exception"}

----------------------------------------------------------------------------
(* Task utilities *)

tasks_for_date(m, date_str) == IF date_str \in DOMAIN m THEN m[date_str] ELSE <<>>

add_task_for_date(m, date_str, task) ==
    IF task = <<>> THEN m
    ELSE [k \in DOMAIN m \cup {date_str} |->
            IF k = date_str THEN Append(tasks_for_date(m, date_str), task) ELSE m[k]]

\* for t in tasks: add_task_for_date(tasks_map, date_str, t)
RECURSIVE AddTasks(_, _, _)
AddTasks(m, date_str, tasks) ==
    IF tasks = <<>> THEN m
    ELSE AddTasks(add_task_for_date(m, date_str, Head(tasks)), date_str, Tail(tasks))

----------------------------------------------------------------------------
(* Catalogue helpers: _parse_timestamp_to_date, group_entries_by_day *)

\* a timestamp that is no date in any format, such as "zz"
Garbage == <<99>>

\* Whether a timestamp gives a date.  The timestamps of the model are those of
\* the formats the program writes: date and time, or the date alone; the empty
\* string and a word that is no date give none.
Parses(ts) == Len(ts) \in {1, 2} /\ ts # Garbage

\* the day key of the bucket an entry falls in
BucketKey(e) == IF Parses(e.timestamp) THEN DayKey(e.timestamp[1]) ELSE UNKNOWN

\* buckets whose entries stay in the order of the store
EntriesAsStored(es) == es

\* list.sort(key=timestamp, reverse=True): stable, newest first
RECURSIVE InsertEntry(_, _)
InsertEntry(sorted, e) ==
    IF sorted = <<>> THEN <<e>>
    ELSE IF StrLess(Head(sorted).timestamp, e.timestamp)
         THEN <<e>> \o sorted
         ELSE <<Head(sorted)>> \o InsertEntry(Tail(sorted), e)

RECURSIVE SortEntries(_)
SortEntries(es) ==
    IF es = <<>> THEN <<>>
    ELSE InsertEntry(SortEntries(SubSeq(es, 1, Len(es) - 1)), es[Len(es)])

\* day_sort_key: "unknown" sorts as datetime.date.min, below every day
DayLess(a, b) == b # UNKNOWN /\ (a = UNKNOWN \/ a[1] < b[1])

\* sorted(buckets.items(), key=day_sort_key, reverse=True): stable
RECURSIVE InsertDay(_, _)
InsertDay(sorted, b) ==
    IF sorted = <<>> THEN <<b>>
    ELSE IF DayLess(Head(sorted).day, b.day)
         THEN <<b>> \o sorted
         ELSE <<Head(sorted)>> \o InsertDay(Tail(sorted), b)

RECURSIVE SortDays(_)
SortDays(bs) ==
    IF bs = <<>> THEN <<>>
    ELSE InsertDay(SortDays(SubSeq(bs, 1, Len(bs) - 1)), bs[Len(bs)])

\* the bucket keys in the order in which the entries first use them
RECURSIVE KeysInOrder(_)
KeysInOrder(es) ==
    IF es = <<>> THEN <<>>
    ELSE LET before == KeysInOrder(SubSeq(es, 1, Len(es) - 1))
             k      == BucketKey(es[Len(es)])
         IN  IF Contains(before, k) THEN before ELSE Append(before, k)

group_entries_by_day(es) ==
    LET keys == KeysInOrder(es)
        buckets == [i \in 1..Len(keys) |->
                      [day |-> keys[i],
                       entries |-> SortEntries(SelectSeq(es,
                                      LAMBDA e : BucketKey(e) = keys[i]))]]
    IN  SortDays(buckets)

\* visible_h = max(0, height - 2)
VisibleRows(h) == Max(0, h - 2)

\* a catalogue that is always drawn from its first day
TopIdxNotFollowing(sel, n, h) == Max(0, Min(0, Max(0, n - VisibleRows(h))))

\* a catalogue that keeps its first row until the selection leaves the window
TopIdxScrolling(sel, n, h) ==
    IF sel < top_idx THEN sel
    ELSE IF sel >= top_idx + VisibleRows(h) THEN sel - VisibleRows(h) + 1
    ELSE top_idx

\* The first row of the catalogue: the selection centred in the window, clamped
\* by the caller and again by render_catalogue (the same clamp).
TopIdx(sel, n, h) ==
    LET guess == Max(0, sel - (VisibleRows(h) \div 2))
    IN  Max(0, Min(guess, Max(0, n - VisibleRows(h))))

----------------------------------------------------------------------------
(* Input: get_singleline_input *)

\* Optional[str]: None, or a string
NoneResult == [none |-> TRUE, text |-> <<>>]
StrResult(s) == [none |-> FALSE, text |-> s]

\* an editor that returns the typed text on Escape
EditorResultEscapeKeepsText(key, buf) ==
    CASE key = "enter" -> StrResult(Strip(buf))
      [] key = "esc"   -> StrResult(Strip(buf))
      [] key = "tab"   -> StrResult(SWITCH_FOCUS_TOKEN)

\* What get_singleline_input returns when the key ends the edit of buffer buf
EditorResult(key, buf) ==
    CASE key = "enter" -> StrResult(Strip(buf))
      [] key = "esc"   -> NoneResult
      [] key = "tab"   -> StrResult(SWITCH_FOCUS_TOKEN)

EndKeys == {"enter", "esc", "tab"}

\* the lines typed at the entry prompt before the closing key
Buffers ==
    { <<>>,
      <<" ", "a", " ">>,
      <<"*">>,
      <<"*", "*">>,
      <<"*", " ", "b">>,
      <<"#", "t", " ", "#", "T">>,
      <<"a", " ", "#", "t", "_", "u", " ", "*", " ", "b">>,
      SWITCH_FOCUS_TOKEN }

\* the lines typed at the location prompt before the closing key
LocationBuffers == { <<"T", " ", "u">> }

\* the terminal heights getmaxyx() reports
Heights == {2, 3, 4, 6}

\* the printable characters typed key by key (32 <= ch <= 126)
EditorChars == {"a", " "}

\* the keys that do not end the edit; "other" is a key the editor ignores
EditKeys == EditorChars \cup {"backspace", "left", "right", "other"}

\* the values of max_width the editor is called with, scaled down with MaxTyped
\* so that a line outgrows the window
Widths == {0, 1, 2}

\* buffer.pop(i - 1)
RemoveAt(buf, i) == SubSeq(buf, 1, i - 1) \o SubSeq(buf, i + 1, Len(buf))

\* buffer.insert(i, c)
InsertAt(buf, i, c) == SubSeq(buf, 1, i) \o <<c>> \o SubSeq(buf, i + 1, Len(buf))

\* an editor that adds every character at the end of the line
EditedBufferAppending(buf, cur, key) ==
    CASE key = "backspace" /\ cur > 0 -> RemoveAt(buf, cur)
      [] key \in EditorChars          -> Append(buf, key)
      [] OTHER                        -> buf

\* the buffer after the editor has handled key with the cursor at cur
EditedBuffer(buf, cur, key) ==
    CASE key = "backspace" /\ cur > 0 -> RemoveAt(buf, cur)
      [] key \in EditorChars          -> InsertAt(buf, cur, key)
      [] OTHER                        -> buf

\* the cursor after the editor has handled key
MovedCursor(buf, cur, key) ==
    CASE key = "backspace" /\ cur > 0     -> cur - 1
      [] key = "left" /\ cur > 0          -> cur - 1
      [] key = "right" /\ cur < Len(buf)  -> cur + 1
      [] key \in EditorChars              -> cur + 1
      [] OTHER                            -> cur

\* a window that follows the cursor to the left only
AdjustScrollLeftOnly(cur, scr, vis) ==
    IF cur < scr THEN cur ELSE scr

\* The top of the editor loop: the window follows the cursor.
AdjustScroll(cur, scr, vis) ==
    IF cur < scr THEN cur
    ELSE IF cur > scr + vis - 1 THEN cur - (vis - 1)
    ELSE scr

\* an editor that starts with the line of its previous run
get_singleline_input_keeping(max_width) ==
    /\ visible' = Max(1, max_width)
    /\ cursor_pos' = Len(buffer)
    /\ scroll' = AdjustScroll(Len(buffer), 0, Max(1, max_width))
    /\ UNCHANGED buffer

\* get_singleline_input is called: its locals are initialised and it blocks
\* at its first keystroke read.
get_singleline_input(max_width) ==
    /\ buffer' = <<>>
    /\ cursor_pos' = 0
    /\ visible' = Max(1, max_width)
    /\ scroll' = AdjustScroll(0, 0, Max(1, max_width))

\* The main loop calls the editor whenever it reaches the entry prompt; the
\* locals of a call that has returned keep their last values until then.
EditorCall(widths) ==
    IF pc' = "Entry" THEN \E w \in widths : get_singleline_input(w)
    ELSE UNCHANGED editor

----------------------------------------------------------------------------
(* The session: interactive_mode *)

Entry(ts, text, tags, loc) ==
    [timestamp |-> ts, text |-> text, tags |-> tags, location |-> loc]

\* the stores a session can find on disk when it starts
OldEntry(d) == Entry(Timestamp([day |-> d, hour |-> 17]), <<"o">>, <<>>, <<>>)

InitFiles ==
    { Missing,
      Malformed,
      ListFile(<<OldEntry(-1)>>),
      DictFile(<<OldEntry(-2), OldEntry(-1)>>, EmptyMap),
      DictFile(<<OldEntry(0)>>, [k \in {DayKey(1)} |-> <<<<"x">>>>]) }

NoIndex == <<>>

Observed(act, arg, ops) == [act |-> act, arg |-> arg, ops |-> ops]

\* location_tags of a location: the lowercase text and its underscore variant
LocationTags(loc) ==
    IF loc # <<>>
    THEN LET raw        == Lower(loc)
             underscore == ReplaceSpaces(raw)
         IN  IF raw = underscore THEN <<raw>> ELSE <<raw, underscore>>
    ELSE <<>>

Digit == [n \in 0..9 |-> CASE n = 0 -> "0" [] n = 1 -> "1" [] n = 2 -> "2"
                           [] n = 3 -> "3" [] n = 4 -> "4" [] n = 5 -> "5"
                           [] n = 6 -> "6" [] n = 7 -> "7" [] n = 8 -> "8"
                           [] n = 9 -> "9"]

\* strftime("%H:%M:%S") of a time on the hour
TimeStr(h) == <<Digit[h \div 10], Digit[h % 10], ":", "0", "0", ":", "0", "0">>

\* a longer day on Mondays only
IsMondayOnly(d) == d % 7 = 0

\* strftime("%A") in ("monday", "tuesday"); day 0 is a Monday
IsMondayOrTuesday(d) == d % 7 \in {0, 1}

\* end_dt = dt_now + delta, as a time of day
ClockOutHour(t) == (t.hour + (IF IsMondayOrTuesday(t.day) THEN 9 ELSE 8)) % 24

\* f"Clock-In at {start_time}. Clock out at {end_time}"
ClockText(t) ==
    <<"C","l","o","c","k","-","I","n"," ","a","t"," ">> \o TimeStr(t.hour)
    \o <<"."," ","C","l","o","c","k"," ","o","u","t"," ","a","t"," ">>
    \o TimeStr(ClockOutHour(t))

\* whether an entry counts as a non-empty entry of today
IsTodayEntry(e) == StartsWith(e.timestamp, today_str) /\ Strip(e.text) # <<>>

today_entries == SelectSeq(entries, IsTodayEntry)

\* The top of the main loop up to the keystroke read: the store f is reloaded,
\* the days are grouped, the selection clamped and the catalogue drawn with
\* terminal height h; the loop then blocks in the editor or in the catalogue.
LoopTop(f, focus, h) ==
    LET data == load_data(f)
        days == group_entries_by_day(data.entries)
        sel  == Max(0, Min(selected_catalogue_index, Max(0, Len(days) - 1)))
    IN  /\ entries' = data.entries
        /\ tasks_map' = data.tasks
        /\ load_error' = LoadError(f)
        /\ days_list' = days
        /\ selected_catalogue_index' = sel
        /\ height' = h
        /\ top_idx' = TopIdx(sel, Len(days), h)
        /\ catalogue_focus' = focus
        /\ pc' = IF focus THEN "Catalogue" ELSE "Entry"

\* The location prompt ends (key, buf): location and its tags are set, the
\* clock is read, and the clock-in entry is created and saved when today has
\* no entry yet; a write that raises is caught and only warned about.
AnswerLocation(key, buf, now, wr, h) ==
    LET loc_in == EditorResult(key, buf)
        loc    == IF loc_in.none THEN <<>> ELSE Strip(loc_in.text)
        ltags  == LocationTags(loc)
        new_entry == Entry(Timestamp(now), ClockText(now), ltags, loc)
    IN  /\ pc = "EnteringLocation"
        /\ location' = loc
        /\ location_tags' = ltags
        /\ clock' = now
        /\ ch' = key
        /\ UNCHANGED <<today, viewed_day_index, commits>>
        /\ IF today_entries = <<>>
           THEN /\ file' = Written(file, Append(entries, new_entry), tasks_map, wr)
                /\ last' = Observed("clock_in", loc, SaveOps(wr))
                /\ IF wr = "ok"
                   THEN /\ pc' = "Publishing"
                        /\ entries' = Append(entries, new_entry)
                        /\ UNCHANGED <<tasks_map, days_list, load_error, selected_catalogue_index,
                                       height, top_idx, catalogue_focus>>
                   ELSE LoopTop(file', FALSE, h)
           ELSE /\ file' = file
                /\ last' = Observed("location", loc, <<>>)
                /\ LoopTop(file, FALSE, h)

\* a publication whose failure is raised to the session
PublishReturnRaising(outcome, h) ==
    /\ pc = "Publishing"
    /\ last' = [last EXCEPT !.ops = Append(@, outcome)]
    /\ UNCHANGED <<file, location, location_tags, today, clock,
                   viewed_day_index, commits, ch>>
    /\ IF outcome = "pushed"
       THEN LoopTop(file, catalogue_focus, h)
       ELSE /\ pc' = "Crashed"
            /\ UNCHANGED <<entries, tasks_map, days_list, load_error, catalogue_focus,
                           selected_catalogue_index, height, top_idx>>

\* a publication that is attempted once more when it has failed
PublishReturnRetrying(outcome, h) ==
    /\ pc = "Publishing"
    /\ UNCHANGED <<file, location, location_tags, today, clock,
                   viewed_day_index, commits, ch>>
    /\ IF outcome # "pushed" /\ Len(last.ops) = 2
       THEN /\ last' = [last EXCEPT !.ops = @ \o <<outcome, "publish">>]
            /\ UNCHANGED <<pc, entries, tasks_map, days_list, load_error, catalogue_focus,
                           selected_catalogue_index, height, top_idx>>
       ELSE /\ last' = [last EXCEPT !.ops = Append(@, outcome)]
            /\ LoopTop(file, catalogue_focus, h)

\* git_commit_and_push returns, whatever its outcome, and the main loop starts
\* its next iteration.
PublishReturn(outcome, h) ==
    /\ pc = "Publishing"
    /\ last' = [last EXCEPT !.ops = Append(@, outcome)]
    /\ LoopTop(file, catalogue_focus, h)
    /\ UNCHANGED <<file, location, location_tags, today, clock,
                   viewed_day_index, commits, ch>>

\* for lt in location_tags: if lt not in tags: tags.append(lt)
RECURSIVE AddLocationTags(_, _)
AddLocationTags(tags, lts) ==
    IF lts = <<>> THEN tags
    ELSE AddLocationTags(IF Contains(tags, Head(lts)) THEN tags
                         ELSE Append(tags, Head(lts)), Tail(lts))

\* a loop that lacks the test for the empty note
IsEmptyNoteNever(note) == FALSE

\* if note == "": continue
IsEmptyNote(note) == note = <<>>

\* a commit that lacks the test for an empty cleaned text
RecordsEntryAlways(cleaned_note) == TRUE

\* if cleaned_note and cleaned_note.strip()
RecordsEntry(cleaned_note) == cleaned_note # <<>> /\ Strip(cleaned_note) # <<>>

\* an entry whose tags lack the location tags
NewEntryWithoutLocationTags(note, cleaned_note, now) ==
    Entry(Timestamp(now), cleaned_note, extract_tags(note), location)

\* the entry a committed note creates
NewEntry(note, cleaned_note, now) ==
    Entry(Timestamp(now), cleaned_note,
          AddLocationTags(extract_tags(note), location_tags), location)

\* the day key the tasks of a commit are filed under
TaskDay == tomorrow_str

\* A non-empty note is committed: the entry and the tasks are added to the data
\* loaded at the top of this iteration and save_data is called once; a write
\* that raises is not caught.
Commit(note, now, wr) ==
    LET ex           == extract_tasks_and_clean_text(note)
        tasks        == ex[1]
        cleaned_note == ex[2]
        entries2 == IF RecordsEntry(cleaned_note)
                    THEN Append(entries, NewEntry(note, cleaned_note, now))
                    ELSE entries
        tasks2   == IF tasks # <<>> THEN AddTasks(tasks_map, TaskDay, tasks)
                    ELSE tasks_map
    IN  /\ commits < MaxCommits
        /\ commits' = commits + 1
        /\ clock' = now
        /\ entries' = entries2
        /\ tasks_map' = tasks2
        /\ file' = Written(file, entries2, tasks2, wr)
        /\ last' = Observed("commit", note, SaveOps(wr))
        /\ pc' = IF wr = "ok" THEN "Publishing" ELSE "Crashed"
        /\ UNCHANGED <<days_list, load_error, location, location_tags, today, catalogue_focus,
                       selected_catalogue_index, viewed_day_index, height, top_idx>>

\* What the main loop does with the note the entry editor returned: None ends
\* the session, the focus token switches to the catalogue, an empty note is
\* skipped, any other note is committed.
HandleNote(note, now, wr, h) ==
    IF note.none
    THEN /\ pc' = "Terminated"
         /\ last' = Observed("escape", <<>>, <<>>)
         /\ UNCHANGED <<file, entries, tasks_map, days_list, load_error, location,
                        location_tags, today, clock, catalogue_focus,
                        selected_catalogue_index, viewed_day_index, height,
                        top_idx, commits>>
    ELSE IF note.text = SWITCH_FOCUS_TOKEN
    THEN /\ last' = Observed("switch", note.text, <<>>)
         /\ LoopTop(file, TRUE, h)
         /\ UNCHANGED <<file, location, location_tags, today, clock,
                        viewed_day_index, commits>>
    ELSE IF IsEmptyNote(note.text)
    THEN /\ last' = Observed("empty", note.text, <<>>)
         /\ LoopTop(file, FALSE, h)
         /\ UNCHANGED <<file, location, location_tags, today, clock,
                        viewed_day_index, commits>>
    ELSE Commit(note.text, now, wr)

\* Enter in the entry editor, with buf typed
EntryEnter(buf, now, wr, h) ==
    /\ pc = "Entry"
    /\ ch' = "enter"
    /\ HandleNote(EditorResult("enter", buf), now, wr, h)

\* Escape in the entry editor, whatever was typed
EntryEscape ==
    /\ pc = "Entry"
    /\ ch' = "esc"
    /\ HandleNote(EditorResult("esc", <<>>), clock, "ok", height)

\* Tab or F2 in the entry editor, whatever was typed
EntrySwitch(h) ==
    /\ pc = "Entry"
    /\ ch' = "tab"
    /\ HandleNote(EditorResult("tab", <<>>), clock, "ok", h)

\* A key that does not end the edit is read at the entry prompt: the editor
\* updates the buffer and the cursor and, back at the top of its loop, the
\* window; the main loop does not run.
Keystroke(key) ==
    /\ pc = "Entry"
    /\ key \in EditorChars => Len(buffer) < MaxTyped
    /\ ch' = key
    /\ buffer' = EditedBuffer(buffer, cursor_pos, key)
    /\ cursor_pos' = MovedCursor(buffer, cursor_pos, key)
    /\ scroll' = AdjustScroll(cursor_pos', scroll, visible)
    /\ UNCHANGED <<visible, session>>

----------------------------------------------------------------------------
(* The catalogue navigation loop *)

CatalogueKeys == {"tab", "esc", "up", "down", "npage", "ppage", "enter", "other"}

\* jump = max(1, height - 4)
Jump(h) == Max(1, h - 4)

\* a View that moves the selection to the first day
NavSelectViewMoves(key, sel, n, h) ==
    CASE key = "up"    -> IF sel > 0 THEN sel - 1 ELSE sel
      [] key = "down"  -> IF sel < Max(0, n - 1) THEN sel + 1 ELSE sel
      [] key = "enter" -> 0
      [] OTHER         -> sel

\* the selection after a navigation key, among n days
NavSelect(key, sel, n, h) ==
    CASE key = "up"    -> IF sel > 0 THEN sel - 1 ELSE sel
      [] key = "down"  -> IF sel < Max(0, n - 1) THEN sel + 1 ELSE sel
      [] key = "npage" -> Min(Max(0, n - 1), sel + Jump(h))
      [] key = "ppage" -> Max(0, sel - Jump(h))
      [] OTHER         -> sel

\* One key read by the catalogue loop: Tab or F2 gives the focus back and the
\* main loop starts over (with terminal height h), Escape ends the session,
\* any other key updates the selection or the viewed day and redraws the
\* catalogue.
CatalogueKey(key, h) ==
    /\ pc = "Catalogue"
    /\ ch' = key
    /\ last' = Observed("catalogue", <<key>>, <<>>)
    /\ UNCHANGED <<file, location, location_tags, today, clock, commits>>
    /\ IF key = "tab"
       THEN /\ LoopTop(file, FALSE, h)
            /\ UNCHANGED viewed_day_index
       ELSE IF key = "esc"
       THEN /\ pc' = "Terminated"
            /\ UNCHANGED <<entries, tasks_map, days_list, load_error, catalogue_focus,
                           selected_catalogue_index, viewed_day_index, height,
                           top_idx>>
       ELSE LET sel == NavSelect(key, selected_catalogue_index, Len(days_list), height)
            IN  /\ selected_catalogue_index' = sel
                /\ viewed_day_index' = IF key = "enter" THEN <<sel>>
                                       ELSE viewed_day_index
                /\ top_idx' = TopIdx(sel, Len(days_list), height)
                /\ UNCHANGED <<pc, entries, tasks_map, days_list, load_error, catalogue_focus,
                               height>>

\* The day whose entries the main area shows as the viewed day: the bucket at
\* viewed_day_index of the current grouping, or none (today's entries are shown).
ViewedDay ==
    IF viewed_day_index # NoIndex /\ viewed_day_index[1] < Len(days_list)
    THEN {days_list[viewed_day_index[1] + 1].day}
    ELSE {}

----------------------------------------------------------------------------
(* The specification *)

\* the next-state relation over the given sets of inputs
NextOver(bufs, locs, saves, pubs, keys, heights) ==
    \/ \E key \in EndKeys, buf \in locs, now \in Now(clock), wr \in saves,
          h \in heights :
          AnswerLocation(key, buf, now, wr, h)
    \/ \E outcome \in pubs, h \in heights : PublishReturn(outcome, h)
    \/ \E buf \in bufs, now \in Now(clock), wr \in saves, h \in heights :
          EntryEnter(buf, now, wr, h)
    \/ EntryEscape
    \/ \E h \in heights : EntrySwitch(h)
    \/ \E key \in keys, h \in heights : CatalogueKey(key, h)

\* the state of a session that starts on day d, at one of the times, over one
\* of the files, with the location prompt called with one of the widths
InitOn(d, times, files, widths) ==
    /\ pc = "EnteringLocation"
    /\ file \in files
    /\ entries = load_data(file).entries
    /\ tasks_map = load_data(file).tasks
    /\ load_error = LoadError(file)
    /\ days_list = <<>>
    /\ location = <<>>
    /\ location_tags = <<>>
    /\ today = d
    /\ clock \in times
    /\ catalogue_focus = FALSE
    /\ selected_catalogue_index = 0
    /\ viewed_day_index = NoIndex
    /\ height = 0
    /\ top_idx = 0
    /\ commits = 0
    /\ last = Observed("start", <<>>, <<>>)
    /\ ch = "none"
    /\ buffer = <<>>
    /\ cursor_pos = 0
    /\ scroll = 0
    /\ visible \in {Max(1, w) : w \in widths}
    /\ other_writes = <<>>
    /\ result = <<>>

InitOver(files) ==
    /\ InitOn(0, {t \in Times : t.day = 0}, files, {2})
    /\ call_arg = <<>>

\* The session and its store: every kind of line, location, store on disk and
\* outcome of the write and of the publication, on one terminal height.
Init == InitOver(InitFiles)

Next ==
    /\ NextOver(Buffers, LocationBuffers, SaveOutcomes, PublishOutcomes,
                {"tab", "esc", "other"}, {3})
    /\ EditorCall({2})
    /\ UNCHANGED <<helper, other_writes>>

Spec == Init /\ [][Next]_vars

\* The catalogue: every key and terminal height, over stores of several days.
InitCatalogue == InitOver({Missing, DictFile(<<OldEntry(-2), OldEntry(-1)>>, EmptyMap)})

NextCatalogue ==
    /\ NextOver({<<"a">>}, LocationBuffers, {"ok"}, {"pushed"}, CatalogueKeys, Heights)
    /\ EditorCall({2})
    /\ UNCHANGED <<helper, other_writes>>

SpecCatalogue == InitCatalogue /\ [][NextCatalogue]_vars

\* The editor: the line of the entry prompt is typed key by key, in windows
\* narrower than the line; the closing key hands the buffer to the main loop.
\* The location is given at once and the wall clock stands still.
InitEditor ==
    /\ InitOn(0, {t \in Times : t.day = 0}, {Missing}, Widths)
    /\ call_arg = <<>>

NextEditor ==
    \/ \E key \in EditKeys : Keystroke(key) /\ UNCHANGED <<helper, other_writes>>
    \/ /\ \/ \E buf \in LocationBuffers :
                 AnswerLocation("enter", buf, clock, "ok", 3)
          \/ PublishReturn("pushed", 3)
          \/ EntryEnter(buffer, clock, "ok", 3)
          \/ EntryEscape
          \/ EntrySwitch(3)
          \/ \E key \in CatalogueKeys : CatalogueKey(key, 3)
       /\ EditorCall(Widths)
       /\ UNCHANGED <<helper, other_writes>>

SpecEditor == InitEditor /\ [][NextEditor]_vars

\* The session start: every weekday, before and after midnight, over stores
\* with and without an entry of the day.
StartDays == 0..6

StartHours == {9, 23}

\* entries stored early on day d, with a text and with a blank text
EarlyEntry(d) == Entry(Timestamp([day |-> d, hour |-> 8]), <<"o">>, <<>>, <<>>)

BlankEntry(d) == Entry(Timestamp([day |-> d, hour |-> 8]), <<" ">>, <<>>, <<>>)

StartFiles(d) ==
    { Missing,
      DictFile(<<OldEntry(d - 1)>>, EmptyMap),
      DictFile(<<OldEntry(d - 1), EarlyEntry(d)>>, EmptyMap),
      DictFile(<<BlankEntry(d)>>, EmptyMap) }

\* the times at which the location prompt can return, having started at c
StartNow(c) ==
    {t \in [day : {c.day, c.day + 1}, hour : StartHours] : NotBefore(t, c)}

InitClockIn ==
    /\ \E d \in StartDays :
          InitOn(d, [day : {d}, hour : StartHours], StartFiles(d), {2})
    /\ call_arg = <<>>

NextClockIn ==
    /\ \/ \E key \in EndKeys, buf \in LocationBuffers, now \in StartNow(clock),
              wr \in SaveOutcomes :
              AnswerLocation(key, buf, now, wr, 3)
       \/ \E outcome \in PublishOutcomes : PublishReturn(outcome, 3)
       \/ EntryEscape
    /\ EditorCall({2})
    /\ UNCHANGED <<helper, other_writes>>

SpecClockIn == InitClockIn /\ [][NextClockIn]_vars

\* The store is shared: while the session runs, another process (a second
\* session, an editor, a sync) reads the store and writes it back with an
\* entry of its own, stamped with the time now.
ForeignEntry(now) == Entry(Timestamp(now), <<"f">>, <<>>, <<>>)

ExternalWrite(now) ==
    /\ pc \in {"EnteringLocation", "Publishing", "Entry", "Catalogue"}
    /\ Len(other_writes) < MaxWrites
    /\ file' = DictFile(Append(load_data(file).entries, ForeignEntry(now)),
                        load_data(file).tasks)
    /\ other_writes' = Append(other_writes, ForeignEntry(now))
    /\ UNCHANGED <<session_but_file, ch, editor, helper>>

InitWriters == InitOver({Missing, DictFile(<<OldEntry(-1)>>, EmptyMap)})

NextWriters ==
    \/ /\ NextOver({<<>>, <<"a">>, <<"a", " ", "*", " ", "b">>}, LocationBuffers,
                   {"ok"}, {"pushed"}, {"tab", "esc"}, {3})
       /\ EditorCall({2})
       /\ UNCHANGED <<helper, other_writes>>
    \/ ExternalWrite(clock)

SpecWriters == InitWriters /\ [][NextWriters]_vars

\* A helper is called on its own: no session runs.
NoSession == InitOn(0, {[day |-> 0, hour |-> 17]}, {Missing}, {2})

\* every line of at most n characters of the alphabet
RECURSIVE Lines(_, _)
Lines(alphabet, n) ==
    IF n = 0 THEN {<<>>}
    ELSE LET shorter == Lines(alphabet, n - 1)
         IN  shorter \cup {Append(l, c) : l \in shorter, c \in alphabet}

\* extract_tasks_and_clean_text is called on a raw line, then on the cleaned
\* text it returned.
ExtractAlphabet == {"a", " ", "*", "#"}

InitExtract ==
    /\ NoSession
    /\ call_arg \in Lines(ExtractAlphabet, MaxLen)

CallExtract ==
    /\ Len(result) < 2
    /\ result' = Append(result,
                        extract_tasks_and_clean_text(
                            IF result = <<>> THEN call_arg ELSE result[Len(result)][2]))
    /\ UNCHANGED <<call_arg, session, ch, editor, other_writes>>

NextExtract == CallExtract

SpecExtract == InitExtract /\ [][NextExtract]_vars

\* group_entries_by_day is called on a list of entries in any order.
GroupTimestamps ==
    { <<>>, Garbage, <<0>>, <<0, 9>>, <<0, 17>>, <<1, 9>> }

InitGroup ==
    /\ NoSession
    /\ call_arg \in UNION {[1..n -> {Entry(ts, <<"o">>, <<>>, <<>>) : ts \in GroupTimestamps}]
                       : n \in 0..MaxEntries}

CallGroup ==
    /\ result = <<>>
    /\ result' = <<group_entries_by_day(call_arg)>>
    /\ UNCHANGED <<call_arg, session, ch, editor, other_writes>>

NextGroup == CallGroup

SpecGroup == InitGroup /\ [][NextGroup]_vars

\* load_data is called on a store of any kind: missing, unparsable, a bare
\* list of entries, a dict of entries and tasks.
LoadEntries == { Entry(ts, <<"o">>, <<>>, <<>>) : ts \in {<<0, 9>>, <<0, 17>>, <<1, 9>>} }

LoadFiles ==
    LET lists == UNION {[1..n -> LoadEntries] : n \in 0..MaxEntries}
        maps  == {EmptyMap, [k \in {DayKey(1)} |-> <<<<"x">>>>]}
    IN  {Missing, Malformed}
        \cup {ListFile(es) : es \in lists}
        \cup {DictFile(es, ts) : es \in lists, ts \in maps}

InitLoad ==
    /\ NoSession
    /\ call_arg \in LoadFiles

CallLoad ==
    /\ result = <<>>
    /\ result' = <<load_data(call_arg)>>
    /\ UNCHANGED <<call_arg, session, ch, editor, other_writes>>

NextLoad == CallLoad

SpecLoad == InitLoad /\ [][NextLoad]_vars

----------------------------------------------------------------------------
(* Vocabulary of the properties *)

Range(seq) == {seq[i] : i \in 1..Len(seq)}

Count(seq, x) == Cardinality({i \in 1..Len(seq) : seq[i] = x})

IsBlank(text) == Strip(text) = <<>>

TasksOf(line) == extract_tasks_and_clean_text(line)[1]

CleanedOf(line) == extract_tasks_and_clean_text(line)[2]

\* a step in which the main loop commits the non-empty line last'.arg
CommitStep == pc = "Entry" /\ last'.act = "commit"

\* a step in which the main loop handles Enter on an empty line
EmptyStep == pc = "Entry" /\ last'.act = "empty"

\* the state right after a commit: save_data has been called
JustCommitted == last.act = "commit" /\ pc \in {"Publishing", "Crashed"}

\* the main loop is blocked reading a key
ReadsKey == pc \in {"Entry", "Catalogue"}

\* the ways git_commit_and_push can fail
PublicationFailures == {"git_failed", "exception"}

\* a is a prefix of b
IsPrefix(a, b) == Len(a) <= Len(b) /\ SubSeq(b, 1, Len(a)) = a

\* every bucket of m is in n, with the tasks of m first
TasksExtend(m, n) ==
    \A k \in DOMAIN m : k \in DOMAIN n /\ IsPrefix(m[k], n[k])

\* a step in which save_data has written the store
SaveStep ==
    /\ pc \in {"EnteringLocation", "Entry"}
    /\ last'.ops # <<>>
    /\ Head(last'.ops) = "save"

\* the store holds an entry of day d whose text is not blank
HoldsEntryOf(d) ==
    \E e \in Range(file.entries) : BucketKey(e) = DayKey(d) /\ ~IsBlank(e.text)

\* the location prompt returns in this step
LocationStep == pc = "EnteringLocation" /\ pc' # "EnteringLocation"

\* in this step one entry, timestamped now, is appended to the persisted store
ClockInStored ==
    /\ file'.kind = "dict"
    /\ Len(file'.entries) = Len(file.entries) + 1
    /\ SubSeq(file'.entries, 1, Len(file.entries)) = file.entries
    /\ file'.entries[Len(file'.entries)].timestamp = Timestamp(clock')

\* the editor is blocked at a keystroke read
EditorReads == pc \in {"EnteringLocation", "Entry"}

\* a step in which the entry editor handles a key that does not end the edit
KeystrokeStep == pc = "Entry" /\ pc' = "Entry" /\ ch' \in EditKeys

\* a step in which save_data is called
SaveCalled ==
    \/ file' # file
    \/ (pc # "Publishing" /\ last' # last /\ last'.ops # <<>>)

\* the state of the session apart from the record of the last key
SessionState ==
    <<pc, file, entries, tasks_map, days_list, location, location_tags, today,
      clock, catalogue_focus, selected_catalogue_index, viewed_day_index,
      height, top_idx, commits>>

\* a timestamp that gives no date
NoDate(ts) == ts = <<>> \/ ts = Garbage

\* the entries that appear in memory or on disk in a step
NewEntries ==
    (Range(entries') \cup Range(file'.entries))
        \ (Range(entries) \cup Range(file.entries))

----------------------------------------------------------------------------
(* Properties *)

\* C1: every entry the session adds to the store, the clock-in entry or the
\* entry of a committed line, has a text that is not empty and not blank.
C1_AppendedTextNotBlank ==
    [][\A e \in NewEntries : e.text # <<>> /\ ~IsBlank(e.text)]_vars

\* C1 witness: a task-only line was committed after the clock-in entry was
\* stored, and the store holds the clock-in entry and no entry for the line.
C1_Witness ==
    /\ JustCommitted
    /\ TasksOf(last.arg) # <<>>
    /\ CleanedOf(last.arg) = <<>>
    /\ file.kind = "dict"
    /\ Len(file.entries) = 3
    /\ file.entries[3].text = ClockText([day |-> 0, hour |-> 17])

\* C2: the tasks of a commit made at time now are appended, in extraction
\* order, to the bucket of the day after the day of now, on whatever day the
\* session started.
C2_TasksFiledDayAfterNow ==
    [][(CommitStep /\ TasksOf(last'.arg) # <<>>)
         => tasks_map' = AddTasks(tasks_map, DayKey(clock'.day + 1),
                                  TasksOf(last'.arg))]_vars

\* C3: the tags of the entry a commit creates hold no duplicate: every #token
\* of the line, lowercased, exactly once and every location tag exactly once.
C3_TagsHoldNoDuplicate ==
    (JustCommitted /\ CleanedOf(last.arg) # <<>>)
      => LET tags == entries[Len(entries)].tags
         IN  /\ \A i, j \in 1..Len(tags) : i # j => tags[i] # tags[j]
             /\ \A t \in Range(extract_tags(last.arg)) : Count(tags, t) = 1
             /\ \A lt \in Range(location_tags) : Count(tags, lt) = 1

\* C4: Enter on an empty line, or on a line that cleans to nothing and yields
\* no task, changes neither the entries nor the tasks, calls neither save nor
\* publish, and leaves the focus on the entry editor.
C4_EmptyCommitChangesNothing ==
    [][(EmptyStep \/ (CommitStep /\ CleanedOf(last'.arg) = <<>>
                                 /\ TasksOf(last'.arg) = <<>>))
         => /\ file' = file
            /\ entries' = entries
            /\ tasks_map' = tasks_map
            /\ last'.ops = <<>>
            /\ pc' = "Entry"
            /\ catalogue_focus' = FALSE]_vars

\* C4 witness: Enter on an empty line was handled, with entries in the store.
C4_Witness ==
    /\ last.act = "empty"
    /\ pc = "Entry"
    /\ entries # <<>>

\* C5 (as stated): a committed line that begins with "*" appends no entry and
\* appends the rest of the line, trimmed, as a task.
C5_StarLineIsTaskOnly ==
    [][(CommitStep /\ Head(last'.arg) = "*")
         => /\ entries' = entries
            /\ tasks_map' = add_task_for_date(tasks_map, TaskDay,
                                              Strip(Tail(last'.arg)))
            /\ tasks_map' # tasks_map]_vars

\* C5 (amended): a committed line that begins with "*" and has more after it
\* appends no entry and appends the rest of the line, trimmed, as one task; the
\* bare line "*" is no task fragment: it appends no task and is stored as an
\* entry whose text is "*".
C5_StarLineWithContentIsTaskOnly ==
    [][(CommitStep /\ Head(last'.arg) = "*")
         => IF Len(last'.arg) >= 2
            THEN /\ entries' = entries
                 /\ tasks_map' = add_task_for_date(tasks_map, TaskDay,
                                                   Strip(Tail(last'.arg)))
                 /\ tasks_map' # tasks_map
            ELSE /\ tasks_map' = tasks_map
                 /\ Len(entries') = Len(entries) + 1
                 /\ SubSeq(entries', 1, Len(entries)) = entries
                 /\ entries'[Len(entries')].text = <<"*">>]_vars

\* C5 witness: the line "* b" was committed and "b" is the last task of the
\* bucket the commit files its tasks under, which held a task before.
C5_Witness ==
    /\ JustCommitted
    /\ last.arg = <<"*", " ", "b">>
    /\ TaskDay \in DOMAIN tasks_map
    /\ Len(tasks_map[TaskDay]) >= 2
    /\ tasks_map[TaskDay][Len(tasks_map[TaskDay])] = <<"b">>

\* C6: committing a line whose cleaned text is not empty appends exactly one
\* entry at the end of entries, with timestamp now, the cleaned text, the
\* line's tags followed by the location tags not yet among them, and the
\* session's location; the earlier entries are unchanged and the focus stays on
\* the entry editor.
C6_CommitAppendsOneEntry ==
    [][(CommitStep /\ CleanedOf(last'.arg) # <<>>)
         => LET line_tags == extract_tags(last'.arg)
                missing   == SelectSeq(location_tags,
                                       LAMBDA lt : ~Contains(line_tags, lt))
            IN  /\ Len(entries') = Len(entries) + 1
                /\ SubSeq(entries', 1, Len(entries)) = entries
                /\ entries'[Len(entries')] =
                      [timestamp |-> Timestamp(clock'),
                       text      |-> CleanedOf(last'.arg),
                       tags      |-> line_tags \o missing,
                       location  |-> location]
                /\ catalogue_focus' = FALSE
                /\ location' = location]_vars

\* C6 witness: a line with text, a tag and a task was committed on the day
\* after the session started, in a session with a location and earlier entries.
C6_Witness ==
    /\ JustCommitted
    /\ last.arg = <<"a", " ", "#", "t", "_", "u", " ", "*", " ", "b">>
    /\ location = <<"T", " ", "u">>
    /\ Len(entries) >= 3
    /\ entries[Len(entries)].timestamp = Timestamp([day |-> 1, hour |-> 17])
    /\ entries[Len(entries)].tags = << <<"t", "_", "u">>, <<"t", " ", "u">> >>

\* C7 (as stated): the selection is a valid day index and, when there are
\* days, lies in the window of the catalogue, for every terminal height.
C7_SelectionInViewport ==
    /\ 0 <= selected_catalogue_index
    /\ selected_catalogue_index <= Max(0, Len(days_list) - 1)
    /\ Len(days_list) > 0
         => /\ top_idx <= selected_catalogue_index
            /\ selected_catalogue_index <= top_idx + VisibleRows(height) - 1

\* C7 (amended): the selection is a valid day index and, when there are days
\* and the terminal is high enough to show at least one day row (height >= 3),
\* lies in the window of the catalogue.
C7_SelectionInNonEmptyViewport ==
    /\ 0 <= selected_catalogue_index
    /\ selected_catalogue_index <= Max(0, Len(days_list) - 1)
    /\ (Len(days_list) > 0 /\ VisibleRows(height) >= 1)
         => /\ top_idx <= selected_catalogue_index
            /\ selected_catalogue_index <= top_idx + VisibleRows(height) - 1

\* C7 witness: the catalogue has scrolled: a key moved the selection to the
\* last of more days than the window shows, and the window followed.
C7_Witness ==
    /\ pc = "Catalogue"
    /\ last.act = "catalogue"
    /\ VisibleRows(height) >= 1
    /\ Len(days_list) > VisibleRows(height)
    /\ selected_catalogue_index = Len(days_list) - 1
    /\ top_idx > 0

\* C8: the session ends only by Escape in the entry editor or Escape in the
\* catalogue; no outcome of load, save, publication or drawing ends it.
C8_EndsOnlyByEscape ==
    pc \in {"Terminated", "Crashed"}
      => \/ last.act = "escape"
         \/ (last.act = "catalogue" /\ last.arg = <<"esc">>)

\* C9 (as stated): once a commit is persisted the loop reads the next key
\* without waiting for the publication to finish.
C9_InputNotBlockedByPublication ==
    (pc = "Publishing" /\ last.act = "commit")
      => ENABLED (EntryEscape \/ CatalogueKey("esc", height))

\* C9 (amended): once a commit is persisted the loop waits for the publication
\* to return: the only step it takes is that return, which reads no key; then,
\* whatever the outcome of the publication, successful or failed, the loop
\* reads the next key, with the persisted store as the commit left it.
C9_InputAfterPublicationReturns ==
    [][(pc = "Publishing" /\ last.act = "commit")
         => /\ \E outcome \in PublishOutcomes :
                  last'.ops = <<"save", "publish", outcome>>
            /\ ReadsKey'
            /\ file' = file
            /\ entries' = file.entries]_vars

\* C9 witness: a commit is persisted and its publication is running.
C9_Witness ==
    /\ pc = "Publishing"
    /\ last.act = "commit"
    /\ last.ops = <<"save", "publish">>
    /\ file = DictFile(entries, tasks_map)

\* C10: a commit of a line that yields an entry or tasks performs exactly one
\* save and then exactly one publication attempt; no publication is attempted
\* without a save right before it and every completed save is followed by one.
C10_OneSaveThenOnePublish ==
    /\ (JustCommitted /\ (CleanedOf(last.arg) # <<>> \/ TasksOf(last.arg) # <<>>))
         => last.ops = <<"save", "publish">>
    /\ \A i \in 1..Len(last.ops) :
          /\ last.ops[i] = "publish" => (i > 1 /\ last.ops[i - 1] = "save")
          /\ last.ops[i] = "save" => (i < Len(last.ops) /\ last.ops[i + 1] = "publish")

\* C11: when the publication of a commit fails, by a git command or by an
\* exception, the failure is not raised: the entry and the tasks of the commit
\* stay in the store and in memory, the focus stays on the entry editor, the
\* loop is at its next keystroke read, and publication was attempted once.
C11_PublicationFailureIsContained ==
    [][(pc = "Publishing" /\ last.act = "commit"
          /\ Len(last'.ops) > 2 /\ last'.ops[3] \in PublicationFailures)
         => /\ pc' = "Entry"
            /\ catalogue_focus' = FALSE
            /\ file' = file
            /\ file'.kind = "dict"
            /\ entries' = entries /\ file'.entries = entries
            /\ tasks_map' = tasks_map /\ file'.tasks = tasks_map
            /\ Count(last'.ops, "publish") = 1
            /\ Len(last'.ops) = 3]_vars

\* C11 witness: the publication of a commit with an entry and a task failed by
\* an exception and the loop reads the next key of the entry editor.
C11_Witness ==
    /\ pc = "Entry"
    /\ last.act = "commit"
    /\ last.arg = <<"a", " ", "#", "t", "_", "u", " ", "*", " ", "b">>
    /\ last.ops = <<"save", "publish", "exception">>
    /\ file.entries[Len(file.entries)].text = <<"a", " ", "#", "t", "_", "u">>
    /\ Contains(file.tasks[TaskDay], <<"b">>)

\* C12: every save writes entries of which the entries persisted right before
\* it are a prefix, and task buckets that extend the persisted ones.
C12_SavedStoreExtendsPersisted ==
    [][SaveStep => /\ IsPrefix(file.entries, file'.entries)
                   /\ TasksExtend(file.tasks, file'.tasks)]_vars

\* C13: when the location prompt returns (and the write does not fail), a
\* clock-in entry is appended to the persisted store if and only if the store
\* holds no entry with non-blank text for the day of the clock-in's timestamp.
C13_ClockInIffNoEntryOfThatDay ==
    [][(LocationStep /\ last'.ops # <<"save_raised">>)
         => (ClockInStored <=> ~HoldsEntryOf(clock'.day))]_vars

\* C14: the text of the clock-in entry created at time t states t and, as a
\* time of day, t + 9 hours when t falls on a Monday or a Tuesday and
\* t + 8 hours on every other weekday.
C14_ClockOutAfterNineOrEightHours ==
    [][(LocationStep /\ last'.ops = <<"save", "publish">>)
         => LET t     == clock'
                shift == IF t.day % 7 \in {0, 1} THEN 9 ELSE 8
            IN  /\ entries' # <<>>
                /\ entries'[Len(entries')].timestamp = Timestamp(t)
                /\ entries'[Len(entries')].text =
                      <<"C","l","o","c","k","-","I","n"," ","a","t"," ">>
                      \o TimeStr(t.hour)
                      \o <<"."," ","C","l","o","c","k"," ","o","u","t"," ","a","t"," ">>
                      \o TimeStr((t.hour + shift) % 24)]_vars

\* C14 witness: a clock-in entry was created on a Wednesday at 23:00:00 and
\* states the end time 07:00:00.
C14_Witness ==
    /\ pc = "Publishing"
    /\ last.act = "clock_in"
    /\ clock = [day |-> 2, hour |-> 23]
    /\ SubSeq(entries[Len(entries)].text, 36, 43)
         = <<"0", "7", ":", "0", "0", ":", "0", "0">>

\* C15: Escape at the location prompt leaves the location empty and the
\* location tags empty, and the session goes on to the main loop with the
\* focus on the entry editor: it does not end.
C15_EscapeAtLocationProceeds ==
    [][/\ (LocationStep /\ ch' = "esc")
            => /\ location' = <<>>
               /\ location_tags' = <<>>
               /\ catalogue_focus' = FALSE
               /\ pc' \in {"Publishing", "Entry"}
       /\ (pc = "Publishing" /\ last.act = "clock_in")
            => /\ pc' = "Entry"
               /\ catalogue_focus' = FALSE
               /\ location' = location
               /\ location_tags' = location_tags]_vars

\* C15 witness: Escape ended the location prompt, the clock-in entry was
\* stored without location and tags, and the entry editor reads a key.
C15_Witness ==
    /\ pc = "Entry"
    /\ ch = "esc"
    /\ last.act = "clock_in"
    /\ location = <<>>
    /\ location_tags = <<>>
    /\ entries # <<>>
    /\ entries[Len(entries)].tags = <<>>
    /\ entries[Len(entries)].location = <<>>

\* C16: save_data is called only by the clock-in and by Enter on a line that
\* is not blank; the focus-switch key with any buffer, Escape and every key of
\* the catalogue leave the store, the entries and the tasks unchanged and call
\* neither save nor publish; the focus switch moves the focus to the
\* catalogue, and the editor that runs when the focus comes back starts with
\* an empty buffer and the cursor at 0.
C16_OnlyClockInAndCommitSave ==
    [][/\ SaveCalled
            => \/ (pc = "EnteringLocation" /\ last'.act = "clock_in")
               \/ (pc = "Entry" /\ ch' = "enter" /\ ~IsBlank(buffer))
       /\ ((pc = "Entry" /\ ch' \in {"tab", "esc"}) \/ pc = "Catalogue")
            => /\ file' = file
               /\ entries' = entries
               /\ tasks_map' = tasks_map
               /\ last'.ops = <<>>
       /\ (pc = "Entry" /\ ch' = "tab")
            => (pc' = "Catalogue" /\ catalogue_focus')
       /\ (pc = "Catalogue" /\ pc' = "Entry")
            => (buffer' = <<>> /\ cursor_pos' = 0 /\ scroll' = 0)]_vars

\* C16 witness: the focus-switch key was pressed with a line in progress, in a
\* session with stored entries; the catalogue reads the next key.
C16_Witness ==
    /\ pc = "Catalogue"
    /\ ch = "tab"
    /\ last.act = "switch"
    /\ buffer # <<>>
    /\ file.entries # <<>>

\* C17: in the catalogue the focus goes back to the entry editor on Tab or F2
\* only and the session ends on Escape only; every other key keeps the focus
\* on the catalogue.  View sets the viewed day to the selection and leaves the
\* selection unchanged, and on a day that is already viewed it changes
\* nothing of the session state.
C17_CatalogueFocusAndView ==
    [][pc = "Catalogue"
         => /\ (pc' = "Entry") <=> (ch' = "tab")
            /\ (pc' = "Terminated") <=> (ch' = "esc")
            /\ (ch' = "tab") => ~catalogue_focus'
            /\ (ch' \notin {"tab", "esc"})
                 => (pc' = "Catalogue" /\ catalogue_focus')
            /\ (ch' = "enter")
                 => /\ viewed_day_index' = <<selected_catalogue_index>>
                    /\ selected_catalogue_index' = selected_catalogue_index
            /\ (ch' = "enter" /\ viewed_day_index = <<selected_catalogue_index>>)
                 => UNCHANGED SessionState
            /\ (ch' \notin {"tab", "esc", "enter"})
                 => viewed_day_index' = viewed_day_index]_vars

\* C17 witness: View was pressed on a day other than the first and the
\* catalogue reads the next key.
C17_Witness ==
    /\ pc = "Catalogue"
    /\ ch = "enter"
    /\ selected_catalogue_index > 0
    /\ viewed_day_index = <<selected_catalogue_index>>

\* C18: at every keystroke read of the editor the cursor is within the buffer
\* and within the window, and a key moves the window only when the cursor has
\* left it: to the cursor when the cursor is left of the window, to
\* cursor - (visible - 1) when it is right of it.
C18_CursorInWindow ==
    /\ [](EditorReads
            => /\ visible >= 1
               /\ 0 <= cursor_pos /\ cursor_pos <= Len(buffer)
               /\ scroll <= cursor_pos /\ cursor_pos <= scroll + visible - 1)
    /\ [][KeystrokeStep
            => scroll' = IF cursor_pos' < scroll THEN cursor_pos'
                         ELSE IF cursor_pos' > scroll + visible - 1
                              THEN cursor_pos' - (visible - 1)
                              ELSE scroll]_vars

\* C18 witness: the line is longer than the window, the window has scrolled
\* right and Left has brought the cursor to its first column.
C18_Witness ==
    /\ pc = "Entry"
    /\ ch = "left"
    /\ Len(buffer) > visible
    /\ scroll > 0
    /\ cursor_pos = scroll

\* C19: extraction applied to the cleaned text of a first extraction yields
\* no task and returns that cleaned text unchanged.
C19_ExtractionIdempotentOnCleaned ==
    Len(result) = 2
      => /\ result[2][1] = <<>>
         /\ result[2][2] = result[1][2]

\* C19 witness: a line with a text and a task fragment was extracted twice.
C19_Witness ==
    /\ Len(result) = 2
    /\ result[1][1] # <<>>
    /\ result[1][2] # <<>>
    /\ call_arg # result[1][2]

----------------------------------------------------------------------------
(* Loading *)

\* A step in which the main loop starts an iteration, and so reloads the
\* store: after the location prompt (unless the clock-in is being published),
\* after a publication, after an empty line or a focus switch at the entry
\* prompt, after Tab in the catalogue.
StartsIteration ==
    \/ pc = "Publishing"
    \/ pc = "EnteringLocation" /\ pc' # "Publishing"
    \/ pc = "Entry" /\ last'.act \in {"switch", "empty"}
    \/ pc = "Catalogue" /\ ch' = "tab"

C22_LegacyListIsLoaded ==
    result # <<>> =>
        /\ call_arg.kind = "list"
             => result[1] = [entries |-> call_arg.entries, tasks |-> EmptyMap]
        /\ call_arg.kind = "missing" => result[1] = EmptyData

----------------------------------------------------------------------------
(* The window of the catalogue *)

\* a key of the catalogue loop other than Tab and Escape has been handled
NavigationStep(key) == pc = "Catalogue" /\ pc' = "Catalogue" /\ ch' = key

\* C23 (as stated): the first row of the catalogue persists between keys and
\* changes only when the selection leaves the window: after Up it becomes the
\* selection iff the selection is above it, after Down it becomes
\* selection - visible rows + 1 iff the selection is at or below the end of
\* the window, and otherwise it is unchanged.
C23_WindowMovesOnlyWhenSelectionLeaves ==
    [][/\ NavigationStep("up")
          => top_idx' = IF selected_catalogue_index' < top_idx
                        THEN selected_catalogue_index' ELSE top_idx
       /\ NavigationStep("down")
          => top_idx' = IF selected_catalogue_index' >= top_idx + VisibleRows(height)
                        THEN selected_catalogue_index' - VisibleRows(height) + 1
                        ELSE top_idx]_vars

\* C23 (amended): the first row of the catalogue is not kept between keys: it
\* is a function of the selection alone.  With v visible rows (v >= 1) and
\* more days than rows, v div 2 days are shown above the selection, unless
\* the window then would start before the first day (it starts at the first)
\* or end after the last day (it ends at the last); with no more days than
\* rows the window starts at the first day.
C23_WindowCentredOnSelection ==
    LET v   == VisibleRows(height)
        n   == Len(days_list)
        sel == selected_catalogue_index
    IN  v >= 1 =>
          IF n <= v \/ sel < v \div 2 THEN top_idx = 0
          ELSE IF sel - (v \div 2) > n - v THEN top_idx = n - v
          ELSE sel - top_idx = v \div 2

\* C23 witness: Up moved the selection from the last of three or more days to
\* the day before, which the window of two rows already showed, and the
\* window moved nevertheless.
C23_Witness ==
    /\ pc = "Catalogue"
    /\ ch = "up"
    /\ VisibleRows(height) = 2
    /\ Len(days_list) = 3
    /\ selected_catalogue_index = 1
    /\ top_idx = 0

----------------------------------------------------------------------------
(* The reference editor *)

\* The line and the cursor of the reference editor after one key: a printable
\* key inserts its character at the cursor and advances the cursor, Backspace
\* removes the character before the cursor and steps back (nothing at cursor
\* 0), Left and Right move the cursor by one within the line, any other key
\* changes nothing.
ReferenceEditor(buf, cur, key) ==
    IF key \in EditorChars
    THEN [buffer |-> [i \in 1..(Len(buf) + 1) |->
                         IF i <= cur THEN buf[i]
                         ELSE IF i = cur + 1 THEN key ELSE buf[i - 1]],
          cursor |-> cur + 1]
    ELSE IF key = "backspace" /\ cur > 0
    THEN [buffer |-> [i \in 1..(Len(buf) - 1) |->
                         IF i < cur THEN buf[i] ELSE buf[i + 1]],
          cursor |-> cur - 1]
    ELSE IF key = "left"  THEN [buffer |-> buf, cursor |-> Max(0, cur - 1)]
    ELSE IF key = "right" THEN [buffer |-> buf, cursor |-> Min(Len(buf), cur + 1)]
    ELSE [buffer |-> buf, cursor |-> cur]

\* C24: every key that does not end the edit (a printable character,
\* Backspace, Left, Right, an unrecognised key) takes the buffer and the
\* cursor of get_singleline_input to those of the reference editor; both start
\* from the empty line, so they agree after every sequence of such keys.
C24_EditorFollowsReference ==
    [][KeystrokeStep
         => /\ buffer' = ReferenceEditor(buffer, cursor_pos, ch').buffer
            /\ cursor_pos' = ReferenceEditor(buffer, cursor_pos, ch').cursor]_vars

\* C24 witness: a space has been typed in front of an "a" (after Left), so the
\* line is " a" with the cursor between the two characters.
C24_Witness ==
    /\ pc = "Entry"
    /\ ch = " "
    /\ buffer = <<" ", "a">>
    /\ cursor_pos = 1

----------------------------------------------------------------------------
(* Concurrent writers *)

\* a step in which the main loop commits a line and calls save_data
CommitSaves == pc = "Entry" /\ commits' = commits + 1

\* C25: the store a commit saves is the snapshot loaded at the top of that
\* loop iteration (entries, tasks_map) with the new entry and the new tasks
\* appended.  So an entry another process wrote is in the saved store exactly
\* when it was in the snapshot: written before the load it is retained,
\* written between the load and the save it is gone.
C25_CommitSavesLoadedSnapshot ==
    [][CommitSaves =>
         LET cleaned == CleanedOf(last'.arg)
             tasks   == TasksOf(last'.arg)
             saved   == file'.entries
         IN  /\ file'.kind = "dict"
             /\ IsPrefix(entries, saved)
             /\ Len(saved) = Len(entries) + (IF IsBlank(cleaned) THEN 0 ELSE 1)
             /\ ~IsBlank(cleaned) => /\ saved[Len(saved)].text = cleaned
                                     /\ saved[Len(saved)].timestamp = Timestamp(clock')
             /\ TasksExtend(tasks_map, file'.tasks)
             /\ DOMAIN file'.tasks =
                  DOMAIN tasks_map \cup (IF tasks = <<>> THEN {} ELSE {TaskDay})
             /\ tasks # <<>> =>
                  file'.tasks[TaskDay] = tasks_for_date(tasks_map, TaskDay) \o tasks
             /\ \A w \in Range(other_writes) :
                  w \in Range(saved) <=> w \in Range(entries)]_vars

\* C25 witness: the other process wrote its entry on day 1, after the clock-in
\* of day 1 was saved and reloaded, and the commit of "a" that followed saved
\* a store without it.
C25_Witness ==
    /\ pc = "Publishing"
    /\ last.act = "commit"
    /\ last.arg = <<"a">>
    /\ other_writes # <<>>
    /\ other_writes[1].timestamp = Timestamp([day |-> 1, hour |-> 17])
    /\ file.entries[Len(file.entries)].text = <<"a">>
    /\ other_writes[1] \notin Range(file.entries)

----------------------------------------------------------------------------
(* The focus token *)

\* C26: in the main loop the focus goes from the entry editor to the
\* catalogue only when Tab or F2 was pressed: Enter, whatever the buffer holds,
\* hands the trimmed buffer to the loop as a line, which is committed or, when
\* empty, skipped, and is never taken for a focus switch or a cancellation.
C26_EnterNeverSwitchesFocus ==
    [][/\ (pc = "Entry" /\ ~catalogue_focus /\ catalogue_focus') => ch' = "tab"
       /\ (pc = "Entry" /\ ch' = "enter")
            => /\ last'.act \in {"commit", "empty"}
               /\ ~catalogue_focus'
               /\ pc' # "Terminated"]_vars

----------------------------------------------------------------------------
(* The location *)

\* the locations the user can have typed: nothing, or a line of the location
\* prompt, trimmed
TypedLocations == {<<>>} \cup {Strip(b) : b \in LocationBuffers}

\* the tags that derive from a typed location
TypedLocationTags ==
    UNION {{Lower(loc), ReplaceSpaces(Lower(loc))} : loc \in TypedLocations \ {<<>>}}

\* C27: whichever key ends the location prompt, the location is empty or the
\* trimmed text of the buffer at Enter (empty after Escape and after the
\* focus-switch key), the location tags derive from that text alone, and no
\* entry of the store carries a location or a location tag that was not typed.
C27_LocationIsTypedText ==
    /\ [][LocationStep
            => /\ location' \in TypedLocations
               /\ ch' # "enter" => location' = <<>>
               /\ location' = <<>> => location_tags' = <<>>
               /\ Range(location_tags')
                    \subseteq {Lower(location'), ReplaceSpaces(Lower(location'))}]_vars
    /\ [](\A e \in Range(file.entries) :
             /\ e.location \in TypedLocations
             /\ \A t \in Range(e.tags) :
                  t \in TypedLocationTags \/ Contains(extract_tags(e.text), t))

----------------------------------------------------------------------------
(* The viewed day *)

\* Enter is handled by the catalogue loop: the View command
ViewStep == pc = "Catalogue" /\ ch' = "enter"

\* C28: once View has set viewed_day_index while the bucket of day K was
\* selected, the day shown as the viewed day stays K in every later loop
\* iteration, through reloads, commits and the creation of the bucket of a new
\* day, until the next View: no step other than a View changes it.
C28_ViewedDayIsKept ==
    [][(viewed_day_index # NoIndex /\ ~ViewStep) => ViewedDay' = ViewedDay]_vars

====
